---- MODULE Spec2Model ----
(***************************************************************************)
(* Model of the data cleaning and upload pipeline of the Flask data        *)
(* processing site: processing/cleaner.py, services/data_service.py,       *)
(* services/report_service.py and the upload, report and export routes.    *)
(*                                                                         *)
(* A DataFrame is a record [dtypes, rows]: dtypes is the sequence of the   *)
(* columns' dtype names, rows the sequence of rows, a row the sequence of  *)
(* its cells.  A cell is [na, v, s]: na is TRUE for a missing value (NaN,  *)
(* None, NaT), v is the number of a numeric cell and s the text of an      *)
(* object cell.  Numbers are counted in halves (25.0 is 50, 32.5 is 65),   *)
(* so that the mean of two input values is exact.                          *)
(***************************************************************************)
EXTENDS Integers, Sequences, FiniteSets, TLC

VARIABLES
    df,               \* clean_data: the DataFrame passed in
    dd,               \* clean_data: df_cleaned after line 18 (first drop_duplicates)
    filled,           \* clean_data: df_cleaned after the loop of lines 21-36
    df_cleaned,       \* clean_data: the DataFrame returned
    cleaning_report,  \* clean_data: the report returned
    passes,           \* number of clean_data calls made on this data so far
    tables,           \* <<generate_all_tables(df_cleaned)>>, or <<>> before the call
    filenames,        \* detect_file_format: the two filenames it is applied to
    formats,          \* detect_file_format: the two tags returned, or <<>>
    request,          \* the upload handled last
    response,         \* upload_data: the response to it
    calls,            \* the pipeline stages the last request ran, in order
    records,          \* the uploaded_datasets table
    outcome,          \* process_file: what the last call returned or raised
    chart_df,         \* generate_all_graphs: the DataFrame passed in
    failing,          \* the chart kinds whose rendering raises in this run
    graphs,           \* <<generate_all_graphs(chart_df)>>, or <<>> before the call
    text_file,        \* read_data_file: the text file passed in
    attempts,         \* read_data_file: the pd.read_csv calls made, in order
    read_outcome,     \* read_data_file: what the call returned or raised
    exported,         \* <<the frame exported, its CSV text>>, or <<>>
    reread,           \* <<what read_data_file made of the exported text>>, or <<>>
    report_request,   \* the report download handled last
    report_response,  \* the response to it
    figs,             \* pyplot: the open figures, the current one last
    next_fig,         \* pyplot: the number of figures created so far
    rendered,         \* the chart functions called one after the other, and their results
    threads           \* generate_graph calls in progress: where each one is

cleanVars == <<df, dd, filled, df_cleaned, cleaning_report, passes, tables>>
detectVars == <<filenames, formats>>
uploadVars == <<request, response, calls, records, outcome>>
graphVars == <<chart_df, failing, graphs>>
readVars == <<text_file, attempts, read_outcome>>
exportVars == <<exported, reread>>
reportVars == <<report_request, report_response>>
figureVars == <<figs, next_fig, rendered, threads>>
vars ==
    <<cleanVars, detectVars, uploadVars, graphVars, readVars, exportVars, reportVars,
      figureVars>>

(***************************************************************************)
(* Bounds of the model.                                                    *)
(***************************************************************************)
MaxRows == 4      \* rows of an input DataFrame
MaxPasses == 2    \* successive clean_data calls on the same data
MaxFileRows == 1  \* rows of the table an uploaded file holds
MaxUploads == 2   \* requests handled in one run

(***************************************************************************)
(* Cells.                                                                  *)
(***************************************************************************)
Float(x) == 2 * x                          \* the number x, in halves
Num(h) == [na |-> FALSE, v |-> h, s |-> ""]   \* a numeric cell of h halves
Str(t) == [na |-> FALSE, v |-> 0, s |-> t]    \* a text cell
NaN == [na |-> TRUE, v |-> 0, s |-> ""]       \* a missing cell (NaN, None, NaT)

IsNull(cell) == cell.na

\* Python's order on the text values of the model (code point order).
StrOrder == <<"25", "LA", "NA", "NY", "Unknown">>
StrRank(s) == CHOOSE i \in 1..Len(StrOrder) : StrOrder[i] = s

Range(s) == {s[i] : i \in 1..Len(s)}

\* The element of a one-element set.  Only({F(x) : x \in {e}}) is F(e), with e
\* evaluated once.
Only(S) == CHOOSE x \in S : TRUE

\* The subsequence of s at the indices in keep, in order.
RECURSIVE TakeRows(_, _)
TakeRows(s, keep) ==
    IF s = <<>> THEN <<>>
    ELSE LET n == Len(s)
             front == TakeRows(SubSeq(s, 1, n - 1), keep)
         IN IF n \in keep THEN Append(front, s[n]) ELSE front

Column(rows, c) == [i \in 1..Len(rows) |-> rows[i][c]]

\* The non-missing cells of column c, in row order (Series.dropna()).
NonNull(rows, c) ==
    TakeRows(Column(rows, c), {i \in 1..Len(rows) : ~IsNull(rows[i][c])})

NumValues(rows, c) == Only({[i \in 1..Len(cells) |-> cells[i].v] : cells \in {NonNull(rows, c)}})
StrValues(rows, c) == Only({[i \in 1..Len(cells) |-> cells[i].s] : cells \in {NonNull(rows, c)}})

NullCount(rows, c) == Cardinality({i \in 1..Len(rows) : IsNull(rows[i][c])})

(***************************************************************************)
(* pandas operations used by clean_data.                                   *)
(***************************************************************************)
\* Mutant: only a row that repeats the row just before it counts.
DuplicatedAdjacent(rows, i) == i > 1 /\ rows[i - 1] = rows[i]

\* DataFrame.duplicated(): row i repeats an earlier row (missing == missing).
Duplicated(rows, i) == \E j \in 1..(i - 1) : rows[j] = rows[i]

DuplicateCount(rows) == Cardinality({i \in 1..Len(rows) : Duplicated(rows, i)})

\* Mutant: drop_duplicates(keep='last').
DropDuplicatesKeepLast(rows) ==
    TakeRows(rows, {i \in 1..Len(rows) : ~\E j \in (i + 1)..Len(rows) : rows[j] = rows[i]})

\* DataFrame.drop_duplicates(): keep='first', survivors keep their order.
DropDuplicates(rows) == TakeRows(rows, {i \in 1..Len(rows) : ~Duplicated(rows, i)})

\* Mutant: the dropna() of line 39 left out.
DropNaNever(rows) == rows

\* DataFrame.dropna(): drop every row that holds a missing cell.
DropNa(rows) ==
    TakeRows(rows, {i \in 1..Len(rows) : \A c \in 1..Len(rows[i]) : ~IsNull(rows[i][c])})

\* Series.fillna(cell) on column c; filling with NaN changes nothing.
FillNa(rows, c, cell) ==
    [i \in 1..Len(rows) |->
        IF IsNull(rows[i][c]) THEN [rows[i] EXCEPT ![c] = cell] ELSE rows[i]]

RECURSIVE SortInts(_)
SortInts(s) ==
    IF s = <<>> THEN <<>>
    ELSE LET i == CHOOSE k \in 1..Len(s) : \A j \in 1..Len(s) : s[k] <= s[j]
         IN <<s[i]>> \o SortInts(TakeRows(s, (1..Len(s)) \ {i}))

\* Mutant: the lower middle value instead of the mean of the two middle values.
MedianLow(vals) ==
    IF vals = <<>> THEN NaN
    ELSE Only({Num(sorted[(Len(sorted) + 1) \div 2]) : sorted \in {SortInts(vals)}})

\* Series.median() over the non-missing values (in halves); NaN when there are none.
Median(vals) ==
    LET n == Len(vals)
        Middle(sorted) ==
            IF n % 2 = 1 THEN Num(sorted[(n + 1) \div 2])
            ELSE Num((sorted[n \div 2] + sorted[n \div 2 + 1]) \div 2)
    IN IF n = 0 THEN NaN ELSE Only({Middle(sorted) : sorted \in {SortInts(vals)}})

CountOf(vals, v) == Cardinality({i \in 1..Len(vals) : vals[i] = v})

RECURSIVE SortStrs(_)
SortStrs(S) ==
    IF S = {} THEN <<>>
    ELSE LET m == CHOOSE x \in S : \A y \in S : StrRank(x) <= StrRank(y)
         IN <<m>> \o SortStrs(S \ {m})

\* Mutant: the most frequent values in the order they are first met.
ModeUnsorted(vals) ==
    LET top == {i \in 1..Len(vals) :
                  /\ \A w \in Range(vals) : CountOf(vals, vals[i]) >= CountOf(vals, w)
                  /\ \A j \in 1..(i - 1) : vals[j] # vals[i]}
    IN TakeRows(vals, top)

\* Series.mode(): the most frequent non-missing values, sorted ascending.
Mode(vals) ==
    SortStrs({v \in Range(vals) : \A w \in Range(vals) : CountOf(vals, v) >= CountOf(vals, w)})

(***************************************************************************)
(* clean_data.                                                             *)
(***************************************************************************)
NumericDtypes == {"int64", "float64"}

\* Mutant: the missing counts taken after the first drop_duplicates.
OriginalStatsDeduplicated(d) ==
    [rows |-> Len(d.rows),
     columns |-> Len(d.dtypes),
     missing_values |-> [c \in 1..Len(d.dtypes) |-> NullCount(DropDuplicates(d.rows), c)],
     duplicate_rows |-> DuplicateCount(d.rows)]

OriginalStats(d) ==
    [rows |-> Len(d.rows),
     columns |-> Len(d.dtypes),
     missing_values |-> [c \in 1..Len(d.dtypes) |-> NullCount(d.rows, c)],
     duplicate_rows |-> DuplicateCount(d.rows)]

\* Mutant: no "Unknown" placeholder when the column has no mode.
ImputeColumnNoPlaceholder(dtypes, rows, c) ==
    IF NullCount(rows, c) > 0
    THEN IF dtypes[c] \in NumericDtypes
         THEN FillNa(rows, c, Median(NumValues(rows, c)))
         ELSE IF dtypes[c] = "object"
         THEN Only({IF Len(mode_val) > 0 THEN FillNa(rows, c, Str(mode_val[1])) ELSE rows :
                       mode_val \in {Mode(StrValues(rows, c))}})
         ELSE rows
    ELSE rows

\* One iteration of the loop over the columns.
ImputeColumn(dtypes, rows, c) ==
    IF NullCount(rows, c) > 0
    THEN IF dtypes[c] \in NumericDtypes
         THEN FillNa(rows, c, Median(NumValues(rows, c)))
         ELSE IF dtypes[c] = "object"
         THEN Only({IF Len(mode_val) > 0
                    THEN FillNa(rows, c, Str(mode_val[1]))
                    ELSE FillNa(rows, c, Str("Unknown")) :
                       mode_val \in {Mode(StrValues(rows, c))}})
         ELSE rows
    ELSE rows

RECURSIVE ImputeUpTo(_, _, _)
ImputeUpTo(dtypes, rows, c) ==
    IF c = 0 THEN rows
    ELSE ImputeColumn(dtypes, ImputeUpTo(dtypes, rows, c - 1), c)

Impute(dtypes, rows) == ImputeUpTo(dtypes, rows, Len(dtypes))

RECURSIVE SumSeq(_)
SumSeq(s) == IF s = <<>> THEN 0 ELSE s[Len(s)] + SumSeq(SubSeq(s, 1, Len(s) - 1))

CleaningReport(original_stats, d) ==
    [original |-> original_stats,
     cleaned |->
        [rows |-> Len(d.rows),
         columns |-> Len(d.dtypes),
         rows_removed |-> original_stats.rows - Len(d.rows),
         missing_values_filled |-> SumSeq(original_stats.missing_values),
         duplicate_rows_removed |-> original_stats.duplicate_rows]]

\* Mutant: the second drop_duplicates (line 42) left out.
CleanDataOneDedup(d) ==
    Only({Only({Only({[dd |-> afterFirst,
                       filled |-> afterFill,
                       df_cleaned |-> final,
                       cleaning_report |-> CleaningReport(OriginalStats(d), final)] :
                    final \in {[dtypes |-> d.dtypes, rows |-> DropNa(afterFill)]}}) :
                afterFill \in {Impute(d.dtypes, afterFirst)}}) :
            afterFirst \in {DropDuplicates(d.rows)}})

\* The values clean_data computes, in the order it computes them.
CleanData(d) ==
    Only({Only({Only({[dd |-> afterFirst,
                       filled |-> afterFill,
                       df_cleaned |-> final,
                       cleaning_report |-> CleaningReport(OriginalStats(d), final)] :
                    final \in {[dtypes |-> d.dtypes,
                                rows |-> DropDuplicates(DropNa(afterFill))]}}) :
                afterFill \in {Impute(d.dtypes, afterFirst)}}) :
            afterFirst \in {DropDuplicates(d.rows)}})

(***************************************************************************)
(* generate_all_tables.  A TableSet is a function from the table names     *)
(* present to their payloads.  Of the numeric payloads the model keeps the *)
(* order statistics; mean, std and the quartiles are left out.             *)
(***************************************************************************)
\* np.number: every integer and float width, and timedelta64, which numpy
\* derives from signedinteger; not bool nor datetime.
NpNumber == {"int64", "float64", "float32", "timedelta64[ns]"}

\* float(df[col].mean()) of line 183 raises TypeError when the mean is a
\* Timedelta (or NaT).
FloatRaises(dtype) == dtype = "timedelta64[ns]"

\* df.select_dtypes(include=kinds).columns.tolist()
SelectDtypes(dtypes, kinds) ==
    TakeRows([c \in 1..Len(dtypes) |-> c], {c \in 1..Len(dtypes) : dtypes[c] \in kinds})

NumericStats(rows, c) ==
    Only({[count |-> Len(vals), median |-> Median(vals)] : vals \in {NumValues(rows, c)}})

DataTypesTable(d) ==
    [column_name |-> [c \in 1..Len(d.dtypes) |-> c],
     data_type |-> d.dtypes,
     non_null_count |-> [c \in 1..Len(d.dtypes) |-> Len(d.rows) - NullCount(d.rows, c)],
     null_count |-> [c \in 1..Len(d.dtypes) |-> NullCount(d.rows, c)]]

\* Mutant: mode()[0] taken without the length test of line 199.
MostCommonUnguarded(mode_val) ==
    [raises |-> Len(mode_val) = 0,
     value |-> IF Len(mode_val) > 0 THEN mode_val[1] ELSE "None"]

\* df[col].mode()[0] if len(df[col].mode()) > 0 else None, then str() of it;
\* raises tells whether the expression raised (IndexError).
MostCommon(mode_val) ==
    [raises |-> FALSE,
     value |-> IF Len(mode_val) > 0 THEN mode_val[1] ELSE "None"]

CategoricalStats(rows, c) ==
    Only({Only({[raises |-> most_common.raises,
                 unique_count |-> Cardinality(Range(vals)),
                 most_common_value |-> most_common.value,
                 value_distribution |-> [v \in Range(vals) |-> CountOf(vals, v)]] :
                most_common \in {MostCommon(Mode(vals))}}) :
            vals \in {StrValues(rows, c)}})

\* The division of line 212 is reached only with missing_count > 0.
MissingSummary(d) ==
    [c \in {k \in 1..Len(d.dtypes) : NullCount(d.rows, k) > 0} |->
        [missing_count |-> NullCount(d.rows, c),
         missing_percentage |-> (NullCount(d.rows, c) * 100) \div Len(d.rows)]]

TotalMissing(d) == SumSeq([c \in 1..Len(d.dtypes) |-> NullCount(d.rows, c)])

\* Lines 228-232; the percentage is 0 for a frame without rows.
DuplicateAnalysis(d) ==
    [total_duplicates |-> DuplicateCount(d.rows),
     duplicate_percentage |->
        IF Len(d.rows) > 0 THEN (DuplicateCount(d.rows) * 100) \div Len(d.rows) ELSE 0]

\* The test of line 220.
HasCorrelation(numeric_cols) == Len(numeric_cols) > 1

\* The statements of the try block, in order: whether the statement's
\* condition holds, whether it raises, and the table it stores.
TableSteps(d, numeric_cols, categorical_cols) ==
    LET Step(present, raises, name, payload) ==
            [present |-> present, raises |-> raises, name |-> name, payload |-> payload]
        Categorical(stats) ==
            Step(categorical_cols # <<>>,
                 \E c \in Range(categorical_cols) : stats[c].raises,
                 "categorical_comparison",
                 [c \in Range(categorical_cols) |->
                     [unique_count |-> stats[c].unique_count,
                      most_common_value |-> stats[c].most_common_value,
                      value_distribution |-> stats[c].value_distribution]])
    IN << Step(numeric_cols # <<>>, FALSE, "descriptive_statistics",
               [c \in Range(numeric_cols) |-> NumericStats(d.rows, c)]),
          Step(TRUE, FALSE, "data_types", DataTypesTable(d)),
          Step(numeric_cols # <<>>,
               \E c \in Range(numeric_cols) : FloatRaises(d.dtypes[c]),
               "numeric_comparison",
               [c \in Range(numeric_cols) |-> NumericStats(d.rows, c)]),
          Only({Categorical(stats) :
                  stats \in {[c \in Range(categorical_cols) |-> CategoricalStats(d.rows, c)]}}),
          Step(TRUE, FALSE, "missing_values", MissingSummary(d)),
          Step(HasCorrelation(numeric_cols), FALSE, "correlation_matrix",
               [c \in Range(numeric_cols) |-> Range(numeric_cols)]),
          Step(TRUE, FALSE, "duplicate_analysis", DuplicateAnalysis(d)),
          Step(TRUE, FALSE, "summary",
               [total_rows |-> Len(d.rows),
                total_columns |-> Len(d.dtypes),
                numeric_columns |-> Len(numeric_cols),
                categorical_columns |-> Len(categorical_cols),
                total_missing_values |-> TotalMissing(d)]) >>

\* Mutant: a statement that raises is skipped and the next ones still run.
AfterStepSkipping(prev, step) ==
    IF prev.stopped \/ ~step.present \/ step.raises THEN prev
    ELSE [stopped |-> FALSE,
          tables |-> prev.tables @@ [n \in {step.name} |-> step.payload]]

\* One statement of the try block of lines 159-242 run after the tables
\* of prev: a statement that raises leaves the block for the except of
\* line 244, and nothing is stored any more.
AfterStep(prev, step) ==
    IF prev.stopped \/ ~step.present THEN prev
    ELSE IF step.raises THEN [stopped |-> TRUE, tables |-> prev.tables]
    ELSE [stopped |-> FALSE,
          tables |-> prev.tables @@ [n \in {step.name} |-> step.payload]]

\* The tables stored by the first k statements; stopped is TRUE once a
\* statement has raised, which skips the rest of the try block.
RECURSIVE RunTableSteps(_, _)
RunTableSteps(steps, k) ==
    IF k = 0 THEN [stopped |-> FALSE, tables |-> <<>>]
    ELSE Only({AfterStep(prev, steps[k]) : prev \in {RunTableSteps(steps, k - 1)}})

\* generate_all_tables: the except of lines 244-245 swallows what the try
\* block raised, and the tables stored until then are returned.
GenerateAllTables(d) ==
    Only({RunTableSteps(steps, Len(steps)).tables :
            steps \in {TableSteps(d, SelectDtypes(d.dtypes, NpNumber),
                                   SelectDtypes(d.dtypes, {"object"}))}})

(***************************************************************************)
(* generate_graph and generate_all_graphs.  A ChartSet is a function from  *)
(* the chart kinds present to their image strings.  An image is the base64 *)
(* text of the PNG savefig writes: of the chart drawn, or of the empty     *)
(* figure when no branch drew anything.  Whether matplotlib, seaborn or    *)
(* scipy raise while a chart is rendered is not decided by the model: the  *)
(* chart kinds in failing raise, the others do not.                        *)
(***************************************************************************)
ChartImage == "base64:chart"
EmptyFigureImage == "base64:empty-figure"

PieMaxSlices == 10

\* Mutant: the pie drawn whatever the number of distinct values.
PieDrawnAlways(value_counts) == TRUE

\* The test of line 288 on the number of distinct values.
PieDrawn(value_counts) == value_counts <= PieMaxSlices

\* The condition under which the branch of graph_type draws into the figure.
Draws(d, column, graph_type) ==
    LET numeric_cols == SelectDtypes(d.dtypes, NpNumber)
    IN CASE graph_type \in {"histogram", "line", "kde", "area"} ->
               column # 0 /\ d.dtypes[column] \in {"int64", "float64"}
         [] graph_type \in {"distribution", "bar", "violin"} -> numeric_cols # <<>>
         [] graph_type = "correlation" -> Len(numeric_cols) > 1
         [] graph_type = "missing" -> TotalMissing(d) > 0
         [] graph_type = "scatter" ->
               column # 0 /\ Len(numeric_cols) >= 2 /\ column \in Range(numeric_cols)
         [] graph_type = "pie" ->
               column # 0 /\ PieDrawn(Cardinality(Range(StrValues(d.rows, column))))
         [] OTHER -> FALSE

\* Mutant: generate_graph without its except clause.
GenerateGraphUncaught(d, column, graph_type, raising) ==
    [raised |-> graph_type \in raising,
     image |-> IF graph_type \in raising THEN ""
               ELSE IF Draws(d, column, graph_type) THEN ChartImage ELSE EmptyFigureImage]

\* generate_graph(df, column, graph_type); column 0 stands for None.  The
\* except of lines 325-327 turns whatever was raised into "".
GenerateGraph(d, column, graph_type, raising) ==
    [raised |-> FALSE,
     image |-> IF graph_type \in raising THEN ""
               ELSE IF Draws(d, column, graph_type) THEN ChartImage ELSE EmptyFigureImage]

\* The generate_graph calls of generate_all_graphs, in order: whether the
\* call is made, the chart kind and the column passed.
GraphSteps(numeric_cols, categorical_cols) ==
    LET Step(present, kind, column) == [present |-> present, kind |-> kind, column |-> column]
        first_numeric == IF numeric_cols # <<>> THEN numeric_cols[1] ELSE 0
        first_categorical == IF categorical_cols # <<>> THEN categorical_cols[1] ELSE 0
    IN << Step(numeric_cols # <<>>, "histogram", first_numeric),
          Step(numeric_cols # <<>>, "distribution", 0),
          Step(numeric_cols # <<>>, "correlation", 0),
          Step(numeric_cols # <<>>, "scatter", first_numeric),
          Step(numeric_cols # <<>>, "line", first_numeric),
          Step(numeric_cols # <<>>, "kde", first_numeric),
          Step(numeric_cols # <<>>, "area", first_numeric),
          Step(numeric_cols # <<>>, "bar", 0),
          Step(numeric_cols # <<>>, "violin", 0),
          Step(categorical_cols # <<>>, "pie", first_categorical),
          Step(TRUE, "missing", 0) >>

\* The charts stored by the first k calls; stopped is TRUE once a call has
\* raised, which skips the rest of the try block of lines 335-356.
RECURSIVE RunGraphSteps(_, _, _, _)
RunGraphSteps(d, steps, raising, k) ==
    LET After(prev, step, chart) ==
            IF prev.stopped \/ ~step.present THEN prev
            ELSE IF chart.raised THEN [stopped |-> TRUE, graphs |-> prev.graphs]
            ELSE [stopped |-> FALSE,
                  graphs |-> prev.graphs @@ [n \in {step.kind} |-> chart.image]]
    IN IF k = 0 THEN [stopped |-> FALSE, graphs |-> <<>>]
       ELSE Only({After(prev, steps[k],
                        GenerateGraph(d, steps[k].column, steps[k].kind, raising)) :
                    prev \in {RunGraphSteps(d, steps, raising, k - 1)}})

GenerateAllGraphs(d, raising) ==
    Only({RunGraphSteps(d, steps, raising, Len(steps)).graphs :
            steps \in {GraphSteps(SelectDtypes(d.dtypes, NpNumber),
                                   SelectDtypes(d.dtypes, {"object"}))}})

(***************************************************************************)
(* The DataFrames the cleaner is applied to: typed columns, up to           *)
(* MaxRows rows.  An int64 column never holds a missing value.             *)
(***************************************************************************)
Schemas ==
    {<<"float64", "object">>, <<"float32", "object">>,
     <<"int64", "float32">>, <<"datetime64[ns]", "int64">>, <<"object">>,
     <<"timedelta64[ns]", "object">>}

Cells(dtype) ==
    CASE dtype = "float64" -> {Num(Float(25)), Num(Float(40)), NaN}
      [] dtype = "int64" -> {Num(Float(25)), Num(Float(40))}
      [] dtype = "bool" -> {Num(0), Num(1)}
      [] dtype = "float32" -> {Num(Float(25)), NaN}
      [] dtype = "datetime64[ns]" -> {Num(Float(25)), NaN}
      [] dtype = "timedelta64[ns]" -> {Num(Float(25)), NaN}
      [] dtype = "object" -> {Str("NY"), Str("LA"), NaN}

RowsOf(schema) ==
    IF Len(schema) = 1
    THEN {<<a>> : a \in Cells(schema[1])}
    ELSE {<<a, b>> : a \in Cells(schema[1]), b \in Cells(schema[2])}

Frames(schema, maxRows) ==
    {[dtypes |-> schema, rows |-> r] :
        r \in UNION {[1..n -> RowsOf(schema)] : n \in 0..maxRows}}

NoFrame == [dtypes |-> <<>>, rows |-> <<>>]
NoReport == [none |-> TRUE]

\* The values of the variables a specification does not use.
CleanIdle ==
    /\ df = NoFrame
    /\ dd = <<>>
    /\ filled = <<>>
    /\ df_cleaned = NoFrame
    /\ cleaning_report = NoReport
    /\ passes = 0
    /\ tables = <<>>

NoContent == [kind |-> "none", frame |-> NoFrame, valid |-> {}]
NoRequest == [seq |-> 0, has_file |-> FALSE, filename |-> <<>>, content |-> NoContent]
NoResponse == [status |-> 0, error |-> "", supported |-> {}, rows |-> 0, columns |-> 0]
NoOutcome ==
    [raised |-> FALSE, error |-> "", returned |-> FALSE,
     result |-> NoReport, df_cleaned |-> NoFrame, raising |-> {}]

DetectIdle == filenames = <<>> /\ formats = <<>>

GraphIdle == chart_df = NoFrame /\ failing = {} /\ graphs = <<>>

ReadIdle == text_file = <<>> /\ attempts = <<>> /\ read_outcome = <<>>

ExportIdle == exported = <<>> /\ reread = <<>>

NoReportRequest ==
    [seq |-> 0, route |-> "", target |-> "", has_data |-> FALSE,
     installed |-> FALSE, renders |-> FALSE]

ReportIdle == report_request = NoReportRequest /\ report_response = <<>>

FigureIdle == figs = <<>> /\ next_fig = 0 /\ rendered = <<>> /\ threads = <<>>

UploadIdle ==
    /\ request = NoRequest
    /\ response = NoResponse
    /\ calls = <<>>
    /\ records = <<>>
    /\ outcome = NoOutcome

(***************************************************************************)
(* The cleaner applied to a drawn DataFrame, then to its own output.       *)
(***************************************************************************)
InitClean ==
    /\ \E schema \in Schemas : \E n \in 0..MaxRows : \E rows \in [1..n -> RowsOf(schema)] :
          df = [dtypes |-> schema, rows |-> rows]
    /\ dd = <<>>
    /\ filled = <<>>
    /\ df_cleaned = NoFrame
    /\ cleaning_report = NoReport
    /\ passes = 0
    /\ tables = <<>>
    /\ DetectIdle
    /\ UploadIdle
    /\ GraphIdle
    /\ ReadIdle
    /\ ExportIdle
    /\ ReportIdle
    /\ FigureIdle

\* clean_data(df) on the drawn frame, or on the frame the last call returned.
Clean ==
    /\ passes < MaxPasses
    /\ \E out \in {CleanData(IF passes = 0 THEN df ELSE df_cleaned)} :
          /\ df' = (IF passes = 0 THEN df ELSE df_cleaned)
          /\ dd' = out.dd
          /\ filled' = out.filled
          /\ df_cleaned' = out.df_cleaned
          /\ cleaning_report' = out.cleaning_report
    /\ passes' = passes + 1
    /\ tables' = <<>>
    /\ UNCHANGED <<detectVars, uploadVars, graphVars, readVars, exportVars, reportVars, figureVars>>

\* generate_all_tables(df_cleaned)
Tables ==
    /\ passes > 0
    /\ tables = <<>>
    /\ tables' = <<GenerateAllTables(df_cleaned)>>
    /\ UNCHANGED <<df, dd, filled, df_cleaned, cleaning_report, passes>>
    /\ UNCHANGED <<detectVars, uploadVars, graphVars, readVars, exportVars, reportVars, figureVars>>

NextClean == Clean \/ Tables

SpecClean == InitClean /\ [][NextClean]_vars

(***************************************************************************)
(* detect_file_format.  A filename is the sequence of its characters.      *)
(***************************************************************************)
UpperChars ==
    <<"A", "B", "C", "D", "E", "F", "G", "H", "I", "J", "K", "L", "M",
      "N", "O", "P", "Q", "R", "S", "T", "U", "V", "W", "X", "Y", "Z">>
LowerChars ==
    <<"a", "b", "c", "d", "e", "f", "g", "h", "i", "j", "k", "l", "m",
      "n", "o", "p", "q", "r", "s", "t", "u", "v", "w", "x", "y", "z">>
Whitespace == {" ", "\t"}

LowerChar(ch) ==
    IF \E i \in 1..Len(UpperChars) : UpperChars[i] = ch
    THEN LowerChars[CHOOSE i \in 1..Len(UpperChars) : UpperChars[i] = ch]
    ELSE ch

\* Mutant: the extension compared as written.
LowerNothing(str) == str

\* str.lower()
Lower(str) == [i \in 1..Len(str) |-> LowerChar(str[i])]

\* str.strip()
Strip(str) ==
    LET solid == {i \in 1..Len(str) : str[i] \notin Whitespace}
    IN IF solid = {} THEN <<>>
       ELSE SubSeq(str, CHOOSE i \in solid : \A j \in solid : i <= j,
                        CHOOSE i \in solid : \A j \in solid : i >= j)

\* str.rfind(ch), counted from 1; 0 when ch does not occur.
LastIndexOf(str, ch) ==
    LET at == {i \in 1..Len(str) : str[i] = ch}
    IN IF at = {} THEN 0 ELSE CHOOSE i \in at : \A j \in at : i >= j

\* os.path.splitext (POSIX): the extension starts at the last dot of the last
\* path component, unless only dots precede it there.
Splitext(path) ==
    LET sepIndex == LastIndexOf(path, "/")
        dotIndex == LastIndexOf(path, ".")
    IN IF dotIndex > sepIndex /\ \E k \in (sepIndex + 1)..(dotIndex - 1) : path[k] # "."
       THEN [root |-> SubSeq(path, 1, dotIndex - 1), ext |-> SubSeq(path, dotIndex, Len(path))]
       ELSE [root |-> path, ext |-> <<>>]

\* The formats dictionary, in its order.
FormatTable ==
    << << <<".", "c", "s", "v">>, "csv" >>,
       << <<".", "j", "s", "o", "n">>, "json" >>,
       << <<".", "x", "l", "s", "x">>, "xlsx" >>,
       << <<".", "x", "l", "s">>, "xls" >>,
       << <<".", "t", "s", "v">>, "tsv" >>,
       << <<".", "t", "x", "t">>, "txt" >>,
       << <<".", "p", "a", "r", "q", "u", "e", "t">>, "parquet" >>,
       << <<".", "p", "q">>, "parquet" >>,
       << <<".", "h", "d", "f", "5">>, "hdf5" >>,
       << <<".", "h", "5">>, "hdf5" >>,
       << <<".", "f", "e", "a", "t", "h", "e", "r">>, "feather" >> >>

DetectFileFormat(filename) ==
    LET ext == Strip(Lower(Splitext(filename).ext))
        hits == {i \in 1..Len(FormatTable) : FormatTable[i][1] = ext}
    IN IF hits = {} THEN "unknown" ELSE FormatTable[CHOOSE i \in hits : TRUE][2]

(***************************************************************************)
(* detect_file_format applied to two drawn filenames.                      *)
(***************************************************************************)
Stems ==
    {<<"a">>, <<>>, <<"a", ".", "b">>, <<".">>, <<"d", ".", "h", "5", "/", "a">>}

Extensions ==
    {FormatTable[i][1] : i \in 1..Len(FormatTable)}
    \cup {<<".", "C", "S", "V">>, <<".", "C", "s", "v">>, <<".", "P", "Q">>,
          <<".", "H", "5">>, <<".", "J", "s", "o", "n">>,
          <<".", "c", "s", "v", " ">>, <<".", "P", "q", "\t">>,
          <<".", " ", "c", "s", "v">>, <<".", "c", "s">>,
          <<".", "c", "s", "v", "x">>, <<".", "g", "z">>, <<".">>, <<>>}

Filenames == {stem \o ext : stem \in Stems, ext \in Extensions}

InitDetect ==
    /\ filenames \in Filenames \X Filenames
    /\ formats = <<>>
    /\ CleanIdle
    /\ UploadIdle
    /\ GraphIdle
    /\ ReadIdle
    /\ ExportIdle
    /\ ReportIdle
    /\ FigureIdle

Detect ==
    /\ formats = <<>>
    /\ formats' = <<DetectFileFormat(filenames[1]), DetectFileFormat(filenames[2])>>
    /\ UNCHANGED <<filenames, cleanVars, uploadVars>>
    /\ UNCHANGED <<graphVars, readVars, exportVars, reportVars, figureVars>>

NextDetect == Detect

SpecDetect == InitDetect /\ [][NextDetect]_vars

(***************************************************************************)
(* read_data_file, analyze_data, process_file and the upload route.        *)
(* The content of a file is [kind, frame]: kind names the encoding of the  *)
(* bytes ("csv" text, "parquet" bytes, "empty" for no bytes at all) and    *)
(* frame the table they hold.  A reader returns the frame of bytes of its  *)
(* own kind and raises on the others.                                      *)
(***************************************************************************)
\* The branch of read_data_file taken for a tag; the last else reads CSV.
ReaderOf(file_format) ==
    CASE file_format = "csv" -> "csv"
      [] file_format = "json" -> "json"
      [] file_format \in {"xlsx", "xls"} -> "excel"
      [] file_format = "tsv" -> "tsv"
      [] file_format = "txt" -> "txt"
      [] file_format = "parquet" -> "parquet"
      [] file_format = "hdf5" -> "hdf5"
      [] file_format = "feather" -> "feather"
      [] OTHER -> "csv"

\* The candidate encodings of line 61, in order.
Encodings == <<"utf-8", "latin-1", "windows-1252", "iso-8859-1", "cp1252">>

\* The Python codec an encoding name stands for.
CodecOf(encoding) ==
    CASE encoding = "utf-8" -> "utf_8"
      [] encoding \in {"latin-1", "iso-8859-1"} -> "latin_1"
      [] encoding \in {"windows-1252", "cp1252"} -> "cp1252"

AllCodecs == {"utf_8", "latin_1", "cp1252"}

\* pd.read_csv(file_obj, encoding=encoding) gets past decoding: the runtime
\* knows the codec (no LookupError) and the bytes are valid in it (no
\* UnicodeDecodeError).
Decodes(content, encoding, codecs) ==
    CodecOf(encoding) \in codecs /\ CodecOf(encoding) \in content.valid

StrictAttempt(encoding) == [encoding |-> encoding, errors |-> "strict"]
LossyAttempt == [encoding |-> "utf-8", errors |-> "replace"]

\* The loop of lines 66-71 from candidate k on: the read_csv calls made and
\* the table returned by the first that decodes.  When none is left, line
\* 73 calls pd.read_csv(..., errors='replace'); read_csv has no parameter
\* errors, so the call raises TypeError.
RECURSIVE TryReadCsvFrom(_, _, _)
TryReadCsvFrom(content, codecs, k) ==
    IF k > Len(Encodings)
    THEN [ok |-> FALSE, frame |-> NoFrame, encoding |-> "",
          attempts |-> <<LossyAttempt>>,
          error |-> "read_csv() got an unexpected keyword argument 'errors'"]
    ELSE IF Decodes(content, Encodings[k], codecs)
    THEN [ok |-> TRUE, frame |-> content.frame, encoding |-> Encodings[k],
          attempts |-> <<StrictAttempt(Encodings[k])>>, error |-> ""]
    ELSE Only({[rest EXCEPT !.attempts = <<StrictAttempt(Encodings[k])>> \o rest.attempts] :
                  rest \in {TryReadCsvFrom(content, codecs, k + 1)}})

try_read_csv_with_encodings(content, codecs) == TryReadCsvFrom(content, codecs, 1)

TextReaders == {"csv", "tsv", "txt"}

\* read_data_file(file) in a runtime that knows the codecs given.
ReadDataFileIn(file, codecs) ==
    LET reader == ReaderOf(DetectFileFormat(file.filename))
        Failed(tried) ==
            [ok |-> FALSE, frame |-> NoFrame, error |-> "Error reading file",
             attempts |-> tried]
        Text(tried) ==
            IF tried.ok
            THEN [ok |-> TRUE, frame |-> tried.frame, error |-> "", attempts |-> tried.attempts]
            ELSE Failed(tried.attempts)
    IN IF file.content.kind # reader THEN Failed(<<>>)
       ELSE IF reader \in TextReaders
       THEN Only({Text(tried) :
                    tried \in {try_read_csv_with_encodings(file.content, codecs)}})
       ELSE [ok |-> TRUE, frame |-> file.content.frame, error |-> "", attempts |-> <<>>]

\* read_data_file(file) under a Python that has all its codecs.
ReadDataFile(file) ==
    Only({[ok |-> r.ok, frame |-> r.frame, error |-> r.error] :
            r \in {ReadDataFileIn(file, AllCodecs)}})

\* Mutant: the test of line 114 never true.
IsEmptyNever(d) == FALSE

\* DataFrame.empty: no rows or no columns.
IsEmpty(d) == Len(d.rows) = 0 \/ Len(d.dtypes) = 0

AnalyzeData(d) ==
    [rows |-> Len(d.rows),
     columns |-> Len(d.dtypes),
     numeric_columns |-> SelectDtypes(d.dtypes, {"int64", "float64"}),
     categorical_columns |-> SelectDtypes(d.dtypes, {"object"}),
     missing_count |-> TotalMissing(d),
     duplicate_rows |-> DuplicateCount(d.rows)]

\* What the database does with the record: add and commit succeed; add
\* raises; commit raises; or commit raises and the rollback of line 147
\* raises as well.
DbOutcomes == {"ok", "add_fails", "commit_fails", "rollback_fails"}

\* Mutant: the tables generated before the charts.
PipelineStagesTablesFirst ==
    <<"read_data_file", "clean_data", "analyze_data",
      "generate_all_tables", "generate_all_graphs">>

\* The calls of lines 112-130, in order.
PipelineStages ==
    <<"read_data_file", "clean_data", "analyze_data",
      "generate_all_graphs", "generate_all_tables">>

\* The session calls of lines 144-147 made under the database outcome db.
SessionCalls(db) ==
    CASE db = "ok" -> <<"db.session.add", "db.session.commit">>
      [] db = "add_fails" -> <<"db.session.add", "db.session.rollback">>
      [] OTHER -> <<"db.session.add", "db.session.commit", "db.session.rollback">>

\* The try of lines 138-148 lets an exception out: the handler's own
\* rollback raised.
SaveRaises(db) == db = "rollback_fails"

\* Mutant: the chart selector drops the rows it has drawn from the frame.
DatasetAfterDropping(stage, d) ==
    IF stage = "generate_all_graphs" THEN [dtypes |-> d.dtypes, rows |-> <<>>] ELSE d

\* The frame a stage was called with, after the call.  analyze_data,
\* generate_all_graphs and generate_all_tables only read it: what they
\* take from it (select_dtypes, dropna, describe, value_counts, ...) are
\* new objects, and none assigns into df or passes inplace=True.
DatasetAfter(stage, d) == d

\* Mutant: the record carries the row count of the file as read.
UploadedDatasetAsRead(filename, result) ==
    [filename |-> filename, rows |-> result.cleaning_report.original.rows,
     columns |-> result.columns]

\* The record of lines 139-143.
UploadedDataset(filename, result) ==
    [filename |-> filename, rows |-> result.rows, columns |-> result.columns]

\* process_file(file) with the table recs under the database outcome db,
\* the chart kinds of raising failing to render.  Returns what it raised or
\* returned, the stages it ran and the table afterwards.
ProcessFile(file, recs, db, raising) ==
    LET Raise(message, ran) ==
            [raised |-> TRUE, error |-> message, result |-> NoReport,
             df_cleaned |-> NoFrame, calls |-> ran, records |-> recs]
        Save(result, d) ==
            IF SaveRaises(db)
            THEN Raise("File processing failed: rollback failed",
                       PipelineStages \o SessionCalls(db))
            ELSE [raised |-> FALSE, error |-> "", result |-> result,
                  df_cleaned |-> d,
                  calls |-> PipelineStages \o SessionCalls(db),
                  records |->
                     IF db = "ok"
                     THEN Append(recs, UploadedDataset(file.filename, result))
                     ELSE recs]
        Result(cleaned, analysis, charts, generated) ==
            [rows |-> analysis.rows,
             columns |-> analysis.columns,
             analysis |-> analysis,
             cleaning_report |-> cleaned.cleaning_report,
             file_format |-> DetectFileFormat(file.filename),
             graphs |-> charts,
             tables |-> generated]
        Tabulate(cleaned, analysis, charts, d) ==
            Only({Only({Save(result, DatasetAfter("generate_all_tables", d)) :
                          result \in {Result(cleaned, analysis, charts, generated)}}) :
                    generated \in {GenerateAllTables(d)}})
        Chart(cleaned, analysis, d) ==
            Only({Tabulate(cleaned, analysis, charts, DatasetAfter("generate_all_graphs", d)) :
                    charts \in {GenerateAllGraphs(d, raising)}})
        Analyze(cleaned) ==
            Only({Chart(cleaned, analysis, DatasetAfter("analyze_data", cleaned.df_cleaned)) :
                    analysis \in {AnalyzeData(cleaned.df_cleaned)}})
        Process(read) ==
            IF ~read.ok
            THEN Raise("File processing failed: Error reading file", <<"read_data_file">>)
            ELSE IF IsEmpty(read.frame)
            THEN Raise("File processing failed: Uploaded file is empty", <<"read_data_file">>)
            ELSE Only({Analyze(cleaned) : cleaned \in {CleanData(read.frame)}})
    IN Only({Process(read) : read \in {ReadDataFile(file)}})

ALLOWED_FORMATS ==
    {"csv", "json", "xlsx", "xls", "tsv", "txt", "parquet", "pq", "hdf5", "h5", "feather"}

Respond(status, error, supported, rows, columns) ==
    [status |-> status, error |-> error, supported |-> supported,
     rows |-> rows, columns |-> columns]

\* Mutant: no format is rejected.
FormatRejectedNever(file_format) == FALSE

\* The test of line 20.
FormatRejected(file_format) == file_format = "unknown"

\* upload_data: the response, the stages run and the table afterwards.
UploadData(req, recs, db, raising) ==
    LET Pass(p) ==
            [response |->
                IF p.raised
                THEN Respond(400, p.error, {}, 0, 0)
                ELSE Respond(200, "", ALLOWED_FORMATS, p.result.rows, p.result.columns),
             calls |-> <<"process_file">> \o p.calls,
             records |-> p.records]
    IN IF ~req.has_file \/ req.filename = <<>>
       THEN [response |-> Respond(400, "No file provided", {}, 0, 0),
             calls |-> <<>>, records |-> recs]
       ELSE IF FormatRejected(DetectFileFormat(req.filename))
       THEN [response |-> Respond(400, "Unsupported file format", ALLOWED_FORMATS, 0, 0),
             calls |-> <<>>, records |-> recs]
       ELSE Only({Pass(p) : p \in {ProcessFile(req, recs, db, raising)}})

(***************************************************************************)
(* The files a client uploads.  Parquet bytes come under parquet names     *)
(* only: what the CSV reader makes of them is not modelled.                *)
(***************************************************************************)
FileSchemas == {<<"float64">>, <<"float32", "object">>}

FileFrames == UNION {Frames(schema, MaxFileRows) : schema \in FileSchemas}

UploadNames ==
    {<<"a", ".", "c", "s", "v">>, <<"a", ".", "C", "S", "V">>, <<"b", ".", "p", "q">>,
     <<"a", ".", "x", "y", "z">>, <<"a">>, <<>>}

Contents(name) ==
    {[kind |-> "csv", frame |-> f, valid |-> AllCodecs] : f \in FileFrames}
    \cup {[kind |-> "empty", frame |-> NoFrame, valid |-> AllCodecs]}
    \cup IF DetectFileFormat(name) = "parquet"
         THEN {[kind |-> "parquet", frame |-> f, valid |-> {}] : f \in FileFrames}
         ELSE {}

\* The chart kinds that fail to render during one call: none, or the
\* histogram and the chart of missing values.
RenderFailures == {{}, {"histogram", "missing"}}

Files ==
    UNION {{[has_file |-> TRUE, filename |-> name, content |-> c] : c \in Contents(name)} :
              name \in UploadNames}

\* request.files.get("file") is None
NoFile == [has_file |-> FALSE, filename |-> <<>>, content |-> NoContent]

Numbered(file, n) ==
    [seq |-> n, has_file |-> file.has_file, filename |-> file.filename,
     content |-> file.content]

Init ==
    /\ UploadIdle
    /\ CleanIdle
    /\ DetectIdle
    /\ GraphIdle
    /\ ReadIdle
    /\ ExportIdle
    /\ ReportIdle
    /\ FigureIdle

\* POST /api/data/upload
Upload ==
    /\ request.seq < MaxUploads
    /\ \E file \in Files \cup {NoFile} : \E db \in DbOutcomes : \E raising \in RenderFailures :
          \E out \in {UploadData(file, records, db, raising)} :
             /\ request' = Numbered(file, request.seq + 1)
             /\ response' = out.response
             /\ calls' = out.calls
             /\ records' = out.records
    /\ UNCHANGED <<outcome, cleanVars, detectVars>>
    /\ UNCHANGED <<graphVars, readVars, exportVars, reportVars, figureVars>>

Next == Upload

Spec == Init /\ [][Next]_vars

(***************************************************************************)
(* process_file called on drawn files, whatever their names.               *)
(***************************************************************************)
Call ==
    /\ request.seq < MaxUploads
    /\ \E file \in Files : \E db \in DbOutcomes : \E raising \in RenderFailures :
          \E p \in {ProcessFile(file, records, db, raising)} :
             /\ request' = Numbered(file, request.seq + 1)
             /\ outcome' = [raised |-> p.raised, error |-> p.error, returned |-> ~p.raised,
                            result |-> p.result, df_cleaned |-> p.df_cleaned,
                            raising |-> raising]
             /\ calls' = p.calls
             /\ records' = p.records
    /\ UNCHANGED <<response, cleanVars, detectVars>>
    /\ UNCHANGED <<graphVars, readVars, exportVars, reportVars, figureVars>>

NextProcess == Call

SpecProcess == Init /\ [][NextProcess]_vars

(***************************************************************************)
(* read_data_file applied to text files.  The bytes of a file are valid in *)
(* some of the codecs; every byte string is valid in latin_1.  The runtime *)
(* knows utf_8 and some of the other codecs: a Python with all its codecs  *)
(* knows the three, one stripped of encodings modules answers LookupError. *)
(***************************************************************************)
TextNames ==
    {<<"a", ".", "c", "s", "v">>, <<"a", ".", "t", "s", "v">>, <<"a", ".", "t", "x", "t">>}

Runtimes == {known \cup {"utf_8"} : known \in SUBSET {"latin_1", "cp1252"}}

ByteValidities == {valid \cup {"latin_1"} : valid \in SUBSET {"utf_8", "cp1252"}}

TextFiles ==
    {[filename |-> name,
      content |-> [kind |-> DetectFileFormat(name), frame |-> f, valid |-> valid]] :
        name \in TextNames, f \in FileFrames, valid \in ByteValidities}

InitRead ==
    /\ \E file \in TextFiles : \E codecs \in Runtimes :
          text_file = [filename |-> file.filename, content |-> file.content,
                       codecs |-> codecs]
    /\ attempts = <<>>
    /\ read_outcome = <<>>
    /\ CleanIdle
    /\ DetectIdle
    /\ UploadIdle
    /\ GraphIdle
    /\ ExportIdle
    /\ ReportIdle
    /\ FigureIdle

\* read_data_file(text_file)
Read ==
    /\ read_outcome = <<>>
    /\ \E r \in {ReadDataFileIn(text_file, text_file.codecs)} :
          /\ attempts' = r.attempts
          /\ read_outcome' = <<[ok |-> r.ok, frame |-> r.frame, error |-> r.error]>>
    /\ UNCHANGED text_file
    /\ UNCHANGED <<cleanVars, detectVars, uploadVars, graphVars, exportVars, reportVars, figureVars>>

NextRead == Read

SpecRead == InitRead /\ [][NextRead]_vars

(***************************************************************************)
(* generate_csv_report and the way back through read_data_file.  A CSV     *)
(* text is [header, lines]: the header is the sequence of the column       *)
(* names, a line the sequence of its fields, a field a string.             *)
(***************************************************************************)
\* The decimal texts of the numbers of the model (numbers are in halves):
\* str() of an int64 value and repr() of a float.
IntTexts == {<<Float(25), "25">>, <<Float(40), "40">>}
FloatTexts == {<<Float(25), "25.0">>, <<65, "32.5">>, <<Float(40), "40.0">>}

\* The field DataFrame.to_csv writes for a cell; a missing cell is written
\* as the empty field (na_rep='').
FormatCell(dtype, cell) ==
    IF IsNull(cell) THEN ""
    ELSE IF dtype = "object" THEN cell.s
    ELSE IF dtype = "int64" THEN Only({p[2] : p \in {q \in IntTexts : q[1] = cell.v}})
    ELSE Only({p[2] : p \in {q \in FloatTexts : q[1] = cell.v}})

ColumnNames == <<"age", "city">>

\* df.to_csv(csv_buffer, index=False)
ToCsv(d) ==
    [header |-> [c \in 1..Len(d.dtypes) |-> ColumnNames[c]],
     lines |-> [i \in 1..Len(d.rows) |->
                  [c \in 1..Len(d.dtypes) |-> FormatCell(d.dtypes[c], d.rows[i][c])]]]

\* The fields pd.read_csv takes for missing values by default, among the
\* texts of the model.
NaValues == {"", "NA", "NaN", "nan", "null", "None"}

IsIntText(t) == \E p \in IntTexts : p[2] = t
IsNumberText(t) == \E p \in IntTexts \cup FloatTexts : p[2] = t
NumberOf(t) == Only({p[1] : p \in {q \in IntTexts \cup FloatTexts : q[2] = t}})

\* The dtype pd.read_csv infers for a column from its fields.
InferDtype(fields) ==
    IF fields = <<>> THEN "object"
    ELSE IF \A i \in 1..Len(fields) : IsIntText(fields[i]) THEN "int64"
    ELSE IF \A i \in 1..Len(fields) : IsNumberText(fields[i]) \/ fields[i] \in NaValues
    THEN "float64"
    ELSE "object"

\* The cell pd.read_csv makes of a field in a column of the dtype inferred.
ParseCell(dtype, t) ==
    IF dtype = "int64" THEN Num(NumberOf(t))
    ELSE IF t \in NaValues THEN NaN
    ELSE IF dtype = "float64" THEN Num(NumberOf(t))
    ELSE Str(t)

\* pd.read_csv on a CSV text: one column per header name, one row per line.
ReadCsv(text) ==
    LET Parse(dtypes) ==
            [dtypes |-> dtypes,
             rows |-> [i \in 1..Len(text.lines) |->
                         [c \in 1..Len(text.header) |->
                             ParseCell(dtypes[c], text.lines[i][c])]]]
    IN Only({Parse(dtypes) :
               dtypes \in {[c \in 1..Len(text.header) |->
                               InferDtype([i \in 1..Len(text.lines) |-> text.lines[i][c]])]}})

\* generate_csv_report names the export <filename>_report_<time>.csv.
ExportFilename == <<"a", "_", "r", "e", "p", "o", "r", "t", ".", "c", "s", "v">>

(***************************************************************************)
(* The cleaned frame exported to CSV and read back.  The frames cleaned    *)
(* here come from typed sources (JSON, parquet), so that a text cell may   *)
(* hold any text: the letters NA, or the digits 25.                        *)
(***************************************************************************)
MaxExportRows == 2   \* rows of a DataFrame cleaned for export

ExportSchemas == {<<"float64", "object">>, <<"int64", "object">>, <<"object">>}

ExportCells(dtype) ==
    IF dtype = "object" THEN {Str("NY"), Str("NA"), Str("25"), NaN} ELSE Cells(dtype)

ExportRowsOf(schema) ==
    IF Len(schema) = 1
    THEN {<<a>> : a \in ExportCells(schema[1])}
    ELSE {<<a, b>> : a \in ExportCells(schema[1]), b \in ExportCells(schema[2])}

InitExport ==
    /\ \E schema \in ExportSchemas : \E n \in 0..MaxExportRows :
          \E rows \in [1..n -> ExportRowsOf(schema)] :
             df = [dtypes |-> schema, rows |-> rows]
    /\ dd = <<>>
    /\ filled = <<>>
    /\ df_cleaned = NoFrame
    /\ cleaning_report = NoReport
    /\ passes = 0
    /\ tables = <<>>
    /\ DetectIdle
    /\ UploadIdle
    /\ GraphIdle
    /\ ReadIdle
    /\ ExportIdle
    /\ ReportIdle
    /\ FigureIdle

\* generate_csv_report(df_cleaned, filename), then read_data_file on a file
\* of that name holding the bytes returned.
Export ==
    /\ passes > 0
    /\ exported = <<>>
    /\ \E text \in {ToCsv(df_cleaned)} :
          /\ exported' = <<[frame |-> df_cleaned, csv |-> text]>>
          /\ reread' = <<ReadDataFile([filename |-> ExportFilename,
                                       content |-> [kind |-> "csv", frame |-> ReadCsv(text),
                                                    valid |-> AllCodecs]])>>
    /\ UNCHANGED <<cleanVars, detectVars, uploadVars, graphVars, readVars, reportVars, figureVars>>

NextExport == Clean \/ Export

SpecExport == InitExport /\ [][NextExport]_vars

(***************************************************************************)
(* generate_all_graphs applied to a cleaned DataFrame: no missing value,   *)
(* no two equal rows.  Row i holds i in its numeric columns and one of     *)
(* distinct category names, taken in turn, in its object columns.          *)
(***************************************************************************)
MaxChartRows == 11   \* rows of a charted DataFrame

ChartKinds ==
    {"histogram", "distribution", "correlation", "scatter", "line", "kde", "area",
     "bar", "violin", "pie", "missing"}

ChartSchemas ==
    {<<"float64">>, <<"object">>, <<"float64", "object">>, <<"float64", "int64">>,
     <<"float32", "object">>, <<"object", "object">>}

ChartCell(dtype, i, distinct) ==
    IF dtype = "object" THEN Str(ToString(((i - 1) % distinct) + 1)) ELSE Num(Float(i))

ChartFrame(schema, n, distinct) ==
    [dtypes |-> schema,
     rows |-> [i \in 1..n |-> [c \in 1..Len(schema) |-> ChartCell(schema[c], i, distinct)]]]

\* The sets of chart kinds that raise in one run: none, any single one, all.
Failures == {{}} \cup {{kind} : kind \in ChartKinds} \cup {ChartKinds}

InitGraphs ==
    /\ \E schema \in ChartSchemas : \E n \in 0..MaxChartRows :
          \E distinct \in 1..(IF n = 0 THEN 1 ELSE n) :
          chart_df = ChartFrame(schema, n, distinct)
    /\ failing \in Failures
    /\ graphs = <<>>
    /\ CleanIdle
    /\ DetectIdle
    /\ UploadIdle
    /\ ReadIdle
    /\ ExportIdle
    /\ ReportIdle
    /\ FigureIdle

\* generate_all_graphs(chart_df)
Graphs ==
    /\ graphs = <<>>
    /\ graphs' = <<GenerateAllGraphs(chart_df, failing)>>
    /\ UNCHANGED <<chart_df, failing>>
    /\ UNCHANGED <<cleanVars, detectVars, uploadVars, readVars, exportVars, reportVars, figureVars>>

NextGraphs == Graphs

SpecGraphs == InitGraphs /\ [][NextGraphs]_vars

(***************************************************************************)
(* The report generators with an optional library and the routes that      *)
(* serve them.  A request says whether cleaned data came with it, whether  *)
(* the library of the target is installed and whether rendering succeeds.  *)
(***************************************************************************)
MaxDownloads == 2   \* report downloads handled in one run

\* The ImportError messages of report_service.py.
ImportErrorMessage(target) ==
    CASE target = "xlsx" -> "Excel export requires openpyxl. Install with: pip install openpyxl"
      [] target = "pdf" -> "PDF export requires reportlab. Install with: pip install reportlab"
      [] target = "pptx" ->
            "PowerPoint export requires python-pptx. Install with: pip install python-pptx"
      [] target = "docx" -> "Word export requires python-docx. Install with: pip install python-docx"

\* generate_xlsx_report, generate_pdf_report, generate_ppt_report and
\* generate_docx_report: ImportError re-raised with its message, any other
\* exception turned into (None, None).
GenerateReport(target, installed, renders) ==
    IF ~installed
    THEN [raised |-> "ImportError", message |-> ImportErrorMessage(target), content |-> "None"]
    ELSE IF ~renders
    THEN [raised |-> "", message |-> "", content |-> "None"]
    ELSE [raised |-> "", message |-> "", content |-> "bytes"]

\* The error sent by report_routes.py for content None (lines 71, 96, 121).
NotAvailableMessage(target) ==
    CASE target = "pdf" ->
            "PDF generation not available. Install reportlab: pip install reportlab"
      [] target = "pptx" ->
            "PowerPoint generation not available. Install python-pptx: pip install python-pptx"
      [] target = "docx" ->
            "Word generation not available. Install python-docx: pip install python-docx"

\* The error sent by export_routes.py for content None (lines 67, 101, 135).
FailedMessage(target) ==
    CASE target = "pdf" -> "Failed to generate PDF report"
      [] target = "pptx" -> "Failed to generate PowerPoint report"
      [] target = "docx" -> "Failed to generate Word document"

ReportResponse(status, error) == [status |-> status, error |-> error]

\* download_pdf, download_pptx, download_docx of report_routes.py: the
\* ImportError is caught by except Exception and sent with status 500.
DownloadReport(req) ==
    IF ~req.has_data THEN ReportResponse(400, "No cleaned data provided")
    ELSE Only({IF r.raised # "" THEN ReportResponse(500, r.message)
               ELSE IF r.content = "None" THEN ReportResponse(400, NotAvailableMessage(req.target))
               ELSE ReportResponse(200, "") :
                  r \in {GenerateReport(req.target, req.installed, req.renders)}})

\* export_report_pdf, export_report_pptx, export_report_docx of
\* export_routes.py: except ImportError answers 400.
ExportReport(req) ==
    IF ~req.has_data THEN ReportResponse(400, "No cleaned data provided")
    ELSE Only({IF r.raised = "ImportError" THEN ReportResponse(400, r.message)
               ELSE IF r.content = "None" THEN ReportResponse(500, FailedMessage(req.target))
               ELSE ReportResponse(200, "") :
                  r \in {GenerateReport(req.target, req.installed, req.renders)}})

\* export_cleaned_xlsx writes the workbook itself.
ExportCleanedXlsx(req) ==
    IF ~req.has_data THEN ReportResponse(400, "No cleaned data provided")
    ELSE IF ~req.installed THEN ReportResponse(400, ImportErrorMessage("xlsx"))
    ELSE IF ~req.renders THEN ReportResponse(500, "str(e)")
    ELSE ReportResponse(200, "")

\* The routes that send a report with an optional library, and their targets.
ReportRoutes ==
    {<<"report_bp", "pdf">>, <<"report_bp", "pptx">>, <<"report_bp", "docx">>,
     <<"export_bp", "pdf">>, <<"export_bp", "pptx">>, <<"export_bp", "docx">>,
     <<"export_bp", "xlsx">>}

RouteResponse(req) ==
    IF req.route = "report_bp" THEN DownloadReport(req)
    ELSE IF req.target = "xlsx" THEN ExportCleanedXlsx(req)
    ELSE ExportReport(req)

InitReport ==
    /\ report_request = NoReportRequest
    /\ report_response = <<>>
    /\ CleanIdle
    /\ DetectIdle
    /\ UploadIdle
    /\ GraphIdle
    /\ ReadIdle
    /\ ExportIdle
    /\ FigureIdle

\* POST to one of the report routes
Download ==
    /\ report_request.seq < MaxDownloads
    /\ \E rt \in ReportRoutes : \E has_data, installed, renders \in BOOLEAN :
          \E req \in {[seq |-> report_request.seq + 1, route |-> rt[1], target |-> rt[2],
                        has_data |-> has_data, installed |-> installed,
                        renders |-> renders]} :
             /\ report_request' = req
             /\ report_response' = <<RouteResponse(req)>>
    /\ UNCHANGED <<cleanVars, detectVars, uploadVars, graphVars, readVars, exportVars, figureVars>>

NextReport == Download

SpecReport == InitReport /\ [][NextReport]_vars

(***************************************************************************)
(* pyplot's figures.  pyplot keeps the open figures of the process in one  *)
(* ordered table; the last one is the current figure, the one plt.hist,    *)
(* plt.savefig and plt.close() act on.  A figure is known here by the      *)
(* serial number of its creation, the call that created it and the calls   *)
(* that drew on it.                                                        *)
(***************************************************************************)
MaxRenders == 4   \* chart functions called one after the other
MaxCallers == 2   \* generate_graph calls in progress at the same time

NoImage == [serial |-> 0, drawn |-> {}]

\* plt.figure(), plt.subplots(): a new figure, which becomes the current one.
NewFigure(gcf, serial, owner) ==
    Append(gcf, [serial |-> serial, owner |-> owner, drawn |-> {}])

\* plt.gcf(): the current figure; a new one when no figure is open.
Gcf(gcf, serial, owner) == IF gcf = <<>> THEN NewFigure(gcf, serial, owner) ELSE gcf

\* plt.hist, plt.scatter, plt.title, ...: the caller draws on the current figure.
PltDraw(gcf, serial, caller) ==
    Only({[open EXCEPT ![Len(open)].drawn = @ \cup {caller}] :
            open \in {Gcf(gcf, serial, caller)}})

\* ax.hist, ax.imshow, ...: the caller draws on the figure of the axes.
AxDraw(gcf, serial, caller) ==
    [i \in 1..Len(gcf) |->
        IF gcf[i].serial = serial THEN [gcf[i] EXCEPT !.drawn = @ \cup {caller}] ELSE gcf[i]]

\* plt.savefig(buffer): the image of the current figure.
PltSavefig(gcf, serial, caller) ==
    Only({[figs |-> open,
           image |-> [serial |-> open[Len(open)].serial, drawn |-> open[Len(open)].drawn]] :
            open \in {Gcf(gcf, serial, caller)}})

\* plt.close(): closes the current figure, if there is one.
PltClose(gcf) == IF gcf = <<>> THEN gcf ELSE SubSeq(gcf, 1, Len(gcf) - 1)

\* plt.close(fig)
PltCloseFigure(gcf, serial) ==
    TakeRows(gcf, {i \in 1..Len(gcf) : gcf[i].serial # serial})

\* generate_graph, called while no other call is in progress: the figures
\* open afterwards and the image returned.  raises: the branch of the
\* chart kind raised.
GenerateGraphFigures(gcf, serial, caller, raises) ==
    LET opened == NewFigure(gcf, serial, caller)
    IN IF raises
       THEN [figs |-> PltClose(opened), image |-> NoImage, result |-> ""]
       ELSE Only({[figs |-> PltClose(saved.figs), image |-> saved.image,
                   result |-> ChartImage] :
                    saved \in {PltSavefig(PltDraw(opened, serial, caller), serial, caller)}})

\* generate_column_distribution_chart.  raises: a statement after
\* plt.subplots raised (df[column_name] for a column the frame lacks); the
\* except of lines 36-37 returns None.
GenerateColumnDistributionChart(gcf, serial, caller, raises) ==
    LET opened == NewFigure(gcf, serial, caller)
    IN IF raises
       THEN [figs |-> opened, image |-> NoImage, result |-> "None"]
       ELSE Only({[figs |-> PltCloseFigure(drawn, serial),
                   image |-> [serial |-> serial, drawn |-> {caller}],
                   result |-> "data:image/png;base64"] :
                    drawn \in {AxDraw(opened, serial, caller)}})

\* generate_correlation_heatmap on a frame with numeric int64/float64
\* columns.  raises: a statement after plt.subplots raised.
GenerateCorrelationHeatmap(gcf, serial, caller, numeric, raises) ==
    LET opened == NewFigure(gcf, serial, caller)
    IN IF numeric < 2
       THEN [figs |-> gcf, image |-> NoImage, result |-> "None"]
       ELSE IF raises
       THEN [figs |-> opened, image |-> NoImage, result |-> "None"]
       ELSE Only({[figs |-> PltCloseFigure(drawn, serial),
                   image |-> [serial |-> serial, drawn |-> {caller}],
                   result |-> "data:image/png;base64"] :
                    drawn \in {AxDraw(opened, serial, caller)}})

(***************************************************************************)
(* The three chart functions called one after the other.                   *)
(***************************************************************************)
InitFigures ==
    /\ figs = <<>>
    /\ next_fig = 0
    /\ rendered = <<>>
    /\ threads = <<>>
    /\ CleanIdle
    /\ DetectIdle
    /\ UploadIdle
    /\ GraphIdle
    /\ ReadIdle
    /\ ExportIdle
    /\ ReportIdle

Rendered(function, out) ==
    /\ figs' = out.figs
    /\ next_fig' = next_fig + 1
    /\ rendered' = Append(rendered, [function |-> function, image |-> out.image,
                                      result |-> out.result])
    /\ UNCHANGED threads
    /\ UNCHANGED <<cleanVars, detectVars, uploadVars, graphVars, readVars, exportVars,
                    reportVars>>

\* generate_graph(df, column, graph_type)
RenderGraph ==
    /\ Len(rendered) < MaxRenders
    /\ \E raises \in BOOLEAN :
          \E out \in {GenerateGraphFigures(figs, next_fig + 1, Len(rendered) + 1, raises)} :
             Rendered("generate_graph", out)

\* generate_column_distribution_chart(df, column_name)
RenderDistribution ==
    /\ Len(rendered) < MaxRenders
    /\ \E raises \in BOOLEAN :
          \E out \in {GenerateColumnDistributionChart(figs, next_fig + 1,
                                                      Len(rendered) + 1, raises)} :
             Rendered("generate_column_distribution_chart", out)

\* generate_correlation_heatmap(df)
RenderHeatmap ==
    /\ Len(rendered) < MaxRenders
    /\ \E numeric \in 1..2 : \E raises \in BOOLEAN :
          \E out \in {GenerateCorrelationHeatmap(figs, next_fig + 1, Len(rendered) + 1,
                                                  numeric, raises)} :
             Rendered("generate_correlation_heatmap", out)

NextFigures == RenderGraph \/ RenderDistribution \/ RenderHeatmap

SpecFigures == InitFigures /\ [][NextFigures]_vars

(***************************************************************************)
(* generate_graph calls in progress at the same time, as under a server    *)
(* that handles requests in threads.  A call is at one of its pyplot       *)
(* statements: plt.figure (line 252), the drawing branch (255-317),        *)
(* plt.savefig (320), plt.close (323), or the plt.close of the except      *)
(* clause (326).  plt.tight_layout (253) is taken together with            *)
(* plt.figure.                                                             *)
(***************************************************************************)
Callers == 1..MaxCallers

InitThreads ==
    /\ figs = <<>>
    /\ next_fig = 0
    /\ rendered = <<>>
    /\ threads \in [Callers -> {[pc |-> "figure", raises |-> r, own |-> 0, drew_on |-> 0,
                                  image |-> NoImage, closed |-> 0, result |-> "pending"] :
                                    r \in BOOLEAN}]
    /\ CleanIdle
    /\ DetectIdle
    /\ UploadIdle
    /\ GraphIdle
    /\ ReadIdle
    /\ ExportIdle
    /\ ReportIdle

Stepped(gcf) ==
    /\ figs' = gcf
    /\ next_fig' = IF Len(gcf) > Len(figs) THEN next_fig + 1 ELSE next_fig
    /\ UNCHANGED rendered
    /\ UNCHANGED <<cleanVars, detectVars, uploadVars, graphVars, readVars, exportVars,
                    reportVars>>

\* line 252
Figure(t) ==
    /\ threads[t].pc = "figure"
    /\ threads' = [threads EXCEPT ![t].pc = "draw", ![t].own = next_fig + 1]
    /\ Stepped(NewFigure(figs, next_fig + 1, t))

\* lines 255-317, the branch drawing with plt.hist, plt.scatter, ...
Draw(t) ==
    /\ threads[t].pc = "draw"
    /\ ~threads[t].raises
    /\ \E open \in {PltDraw(figs, next_fig + 1, t)} :
          /\ threads' = [threads EXCEPT ![t].pc = "savefig",
                                         ![t].drew_on = open[Len(open)].serial]
          /\ Stepped(open)

\* lines 255-317, the branch raising
Raise(t) ==
    /\ threads[t].pc = "draw"
    /\ threads[t].raises
    /\ threads' = [threads EXCEPT ![t].pc = "except"]
    /\ Stepped(figs)

\* line 320
Savefig(t) ==
    /\ threads[t].pc = "savefig"
    /\ \E saved \in {PltSavefig(figs, next_fig + 1, t)} :
          /\ threads' = [threads EXCEPT ![t].pc = "close", ![t].image = saved.image]
          /\ Stepped(saved.figs)

\* lines 323-324
Close(t) ==
    /\ threads[t].pc = "close"
    /\ threads' = [threads EXCEPT ![t].pc = "done", ![t].result = ChartImage,
                                   ![t].closed = IF figs = <<>> THEN 0
                                                 ELSE figs[Len(figs)].serial]
    /\ Stepped(PltClose(figs))

\* lines 325-327
Except(t) ==
    /\ threads[t].pc = "except"
    /\ threads' = [threads EXCEPT ![t].pc = "done", ![t].result = "",
                                   ![t].closed = IF figs = <<>> THEN 0
                                                 ELSE figs[Len(figs)].serial]
    /\ Stepped(PltClose(figs))

NextThreads ==
    \E t \in Callers :
        Figure(t) \/ Draw(t) \/ Raise(t) \/ Savefig(t) \/ Close(t) \/ Except(t)

SpecThreads == InitThreads /\ [][NextThreads]_vars

(***************************************************************************)
(* Properties of clean_data, checked under SpecClean.                      *)
(***************************************************************************)
NullCells(rows) ==
    {ic \in (1..Len(rows)) \X (1..2) :
        ic[2] <= Len(rows[ic[1]]) /\ IsNull(rows[ic[1]][ic[2]])}

HasNoDuplicates(rows) == \A i \in 1..Len(rows) : \A j \in 1..Len(rows) : rows[i] = rows[j] => i = j

\* A statement of the try block raises on the frame: the float() of the
\* mean of a timedelta column.
TableRaises(d) ==
    \E c \in 1..Len(d.dtypes) : d.dtypes[c] \in NpNumber /\ FloatRaises(d.dtypes[c])

\* C1: cleaning is idempotent.  Cleaning the frame a first call returned
\* returns the same rows and cell values in the same order; the second
\* report counts no duplicate and no missing value, and its cleaned shape
\* equals its original shape.
C1_Idempotent ==
    passes >= 2 =>
        /\ df_cleaned = df
        /\ HasNoDuplicates(df_cleaned.rows)
        /\ NullCells(df_cleaned.rows) = {}
        /\ cleaning_report.original.duplicate_rows = 0
        /\ \A c \in 1..Len(df.dtypes) : cleaning_report.original.missing_values[c] = 0
        /\ cleaning_report.cleaned.rows = cleaning_report.original.rows
        /\ cleaning_report.cleaned.columns = cleaning_report.original.columns
        /\ cleaning_report.cleaned.rows_removed = 0
        /\ cleaning_report.cleaned.missing_values_filled = 0
        /\ cleaning_report.cleaned.duplicate_rows_removed = 0

C1_Witness == passes = 2 /\ Len(df_cleaned.rows) >= 2

\* C2: the frame clean_data returns has no missing value in any column,
\* whatever the dtype, and the report has cleaned.rows <= original.rows.
C2_NoMissingRowsShrink ==
    passes >= 1 =>
        /\ NullCells(df_cleaned.rows) = {}
        /\ cleaning_report.cleaned.rows <= cleaning_report.original.rows
        /\ cleaning_report.cleaned.rows = Len(df_cleaned.rows)
        /\ cleaning_report.original.rows = Len(df.rows)

\* a column the loop does not fill held a missing value, and rows survive
C2_Witness ==
    /\ passes = 1
    /\ Len(df_cleaned.rows) >= 1
    /\ \E c \in 1..Len(df.dtypes) :
          /\ df.dtypes[c] \notin NumericDtypes \cup {"object"}
          /\ NullCount(df.rows, c) > 0

\* The k-th smallest of the values vals, by counting.
OrderStat(vals, k) ==
    CHOOSE x \in Range(vals) :
        /\ Cardinality({i \in 1..Len(vals) : vals[i] < x}) < k
        /\ k <= Cardinality({i \in 1..Len(vals) : vals[i] <= x})

\* The median of the non-missing cells of column c, as a cell.
MedianCell(rows, c) ==
    LET vals == NumValues(rows, c)
        n == Len(vals)
    IN IF n = 0 THEN NaN
       ELSE IF n % 2 = 1 THEN Num(OrderStat(vals, (n + 1) \div 2))
       ELSE Num((OrderStat(vals, n \div 2) + OrderStat(vals, n \div 2 + 1)) \div 2)

MostFrequent(vals) ==
    {v \in Range(vals) : \A w \in Range(vals) : CountOf(vals, v) >= CountOf(vals, w)}

FirstIndex(vals, v) == CHOOSE i \in 1..Len(vals) : vals[i] = v /\ \A j \in 1..(i - 1) : vals[j] # v

\* C4 as stated: every missing cell of an object column that has a value is
\* filled with the most frequent non-missing value, and on a tie with the
\* value met first in row order.
C4_ModeFirstEncountered ==
    passes >= 1 =>
        \A c \in 1..Len(df.dtypes) : \A i \in 1..Len(dd) :
            (df.dtypes[c] = "object" /\ IsNull(dd[i][c]) /\ StrValues(dd, c) # <<>>)
               => LET vals == StrValues(dd, c)
                  IN /\ filled[i][c].s \in MostFrequent(vals)
                     /\ \A w \in MostFrequent(vals) :
                           FirstIndex(vals, filled[i][c].s) <= FirstIndex(vals, w)

\* C4 as amended: every missing cell of an object column that has a value is
\* filled with the most frequent non-missing value, and on a tie with the
\* smallest of the tied values in sort order.
C4_ModeSmallestOnTie ==
    passes >= 1 =>
        \A c \in 1..Len(df.dtypes) : \A i \in 1..Len(dd) :
            (df.dtypes[c] = "object" /\ IsNull(dd[i][c]) /\ StrValues(dd, c) # <<>>)
               => LET vals == StrValues(dd, c)
                  IN /\ ~IsNull(filled[i][c])
                     /\ filled[i][c].s \in MostFrequent(vals)
                     /\ \A w \in MostFrequent(vals) :
                           StrRank(filled[i][c].s) <= StrRank(w)

\* a missing object cell was filled where two values tie for most frequent
C4_Witness ==
    /\ passes = 1
    /\ \E c \in 1..Len(df.dtypes) : \E i \in 1..Len(dd) :
          /\ df.dtypes[c] = "object"
          /\ IsNull(dd[i][c])
          /\ Cardinality(MostFrequent(StrValues(dd, c))) = 2
          /\ ~IsNull(filled[i][c])

AllMissingObject(c) ==
    /\ df.dtypes[c] = "object"
    /\ Len(df.rows) >= 1
    /\ \A i \in 1..Len(df.rows) : IsNull(df.rows[i][c])

ExampleFrame ==
    [dtypes |-> <<"float64", "object">>,
     rows |-> << <<Num(Float(25)), Str("NY")>>, <<NaN, Str("LA")>>,
                 <<Num(Float(25)), Str("NY")>>, <<Num(Float(40)), Str("NY")>> >>]

\* C6: on the example, row index 2 is dropped as a duplicate of row 0, the
\* missing age becomes 32.5 (65 halves), and the report has 3 cleaned rows,
\* rows_removed = 1, missing_values_filled = 1.  In every call
\* rows_removed = original.rows - cleaned.rows.
C6_EndToEndExample ==
    passes >= 1 =>
        /\ cleaning_report.cleaned.rows_removed = Len(df.rows) - Len(df_cleaned.rows)
        /\ df = ExampleFrame =>
              /\ dd = << ExampleFrame.rows[1], ExampleFrame.rows[2], ExampleFrame.rows[4] >>
              /\ df_cleaned.rows =
                    << <<Num(Float(25)), Str("NY")>>, <<Num(65), Str("LA")>>,
                       <<Num(Float(40)), Str("NY")>> >>
              /\ cleaning_report.cleaned.rows = 3
              /\ cleaning_report.cleaned.rows_removed = 1
              /\ cleaning_report.cleaned.missing_values_filled = 1

C6_Witness == passes = 1 /\ df = ExampleFrame

\* C7: missing_values_filled is the number of missing cells of the frame
\* as passed in, whatever was imputed or dropped.
C7_FilledCountsInputMissing ==
    passes >= 1 =>
        cleaning_report.cleaned.missing_values_filled = Cardinality(NullCells(df.rows))

\* the count differs from the number of cells actually imputed
C7_Witness ==
    /\ passes = 1
    /\ cleaning_report.cleaned.missing_values_filled >
          Cardinality({ic \in NullCells(dd) : ~IsNull(filled[ic[1]][ic[2]])})
    /\ \E ic \in NullCells(dd) : ~IsNull(filled[ic[1]][ic[2]])

(***************************************************************************)
(* Properties of detect_file_format, checked under SpecDetect.             *)
(***************************************************************************)
SameLetter(a, b) ==
    a = b \/ \E i \in 1..Len(UpperChars) : {a, b} = {UpperChars[i], LowerChars[i]}

EqualUpToCase(e1, e2) ==
    Len(e1) = Len(e2) /\ \A i \in 1..Len(e1) : SameLetter(e1[i], e2[i])

\* e without the whitespace that ends it
RightTrimmed(e) ==
    SubSeq(e, 1, CHOOSE n \in 0..Len(e) :
                    /\ \A i \in (n + 1)..Len(e) : e[i] \in Whitespace
                    /\ n > 0 => e[n] \notin Whitespace)

EqualUpToCaseAndSpace(e1, e2) == EqualUpToCase(RightTrimmed(e1), RightTrimmed(e2))

\* The supported extensions and the tag each stands for.
CanonicalTag ==
    << << <<".", "c", "s", "v">>, "csv" >>, << <<".", "j", "s", "o", "n">>, "json" >>,
       << <<".", "x", "l", "s", "x">>, "xlsx" >>, << <<".", "x", "l", "s">>, "xls" >>,
       << <<".", "t", "s", "v">>, "tsv" >>, << <<".", "t", "x", "t">>, "txt" >>,
       << <<".", "p", "a", "r", "q", "u", "e", "t">>, "parquet" >>,
       << <<".", "h", "d", "f", "5">>, "hdf5" >>,
       << <<".", "f", "e", "a", "t", "h", "e", "r">>, "feather" >>,
       << <<".", "p", "q">>, "parquet" >>, << <<".", "h", "5">>, "hdf5" >> >>

ExtOf(k) == Splitext(filenames[k]).ext

\* C8 as stated: the tag depends on the extension alone; extensions equal up
\* to letter case give the same tag, each supported extension gives its
\* canonical tag, and every other extension, or none, gives unknown.
C8_ExtensionUpToCase ==
    formats # <<>> =>
        /\ EqualUpToCase(ExtOf(1), ExtOf(2)) => formats[1] = formats[2]
        /\ \A k \in 1..2 :
              /\ \A i \in 1..Len(CanonicalTag) :
                    EqualUpToCase(ExtOf(k), CanonicalTag[i][1]) => formats[k] = CanonicalTag[i][2]
              /\ (\A i \in 1..Len(CanonicalTag) : ~EqualUpToCase(ExtOf(k), CanonicalTag[i][1]))
                    => formats[k] = "unknown"

\* C8 as amended: the same, with extensions compared up to letter case and
\* the whitespace that ends them.
C8_ExtensionUpToCaseAndSpace ==
    formats # <<>> =>
        /\ EqualUpToCaseAndSpace(ExtOf(1), ExtOf(2)) => formats[1] = formats[2]
        /\ \A k \in 1..2 :
              /\ \A i \in 1..Len(CanonicalTag) :
                    EqualUpToCaseAndSpace(ExtOf(k), CanonicalTag[i][1])
                        => formats[k] = CanonicalTag[i][2]
              /\ (\A i \in 1..Len(CanonicalTag) :
                      ~EqualUpToCaseAndSpace(ExtOf(k), CanonicalTag[i][1]))
                    => formats[k] = "unknown"

\* two different filenames whose extensions differ in case only, both parquet
C8_Witness ==
    /\ formats = <<"parquet", "parquet">>
    /\ ExtOf(1) # ExtOf(2)
    /\ EqualUpToCase(ExtOf(1), ExtOf(2))
    /\ Splitext(filenames[1]).root # Splitext(filenames[2]).root

(***************************************************************************)
(* Properties of the upload route, checked under Spec, and of process_file,*)
(* checked under SpecProcess.                                              *)
(***************************************************************************)
UnknownUpload(req) ==
    req.has_file /\ req.filename # <<>> /\ DetectFileFormat(req.filename) = "unknown"

\* C9: an upload whose extension is not recognized is rejected before any
\* read: process_file and read_data_file are not called, no record is
\* written, and the 400 response lists the supported formats.
C9_UnknownRejectedBeforeRead ==
    [][UnknownUpload(request') =>
          /\ calls' = <<>>
          /\ records' = records
          /\ response'.status = 400
          /\ response'.supported = ALLOWED_FORMATS]_vars

\* an unknown-format file that holds a readable table is rejected, with a
\* record of an earlier upload in the table
C9_Witness ==
    /\ UnknownUpload(request)
    /\ request.content.kind = "csv"
    /\ ~IsEmpty(request.content.frame)
    /\ response.status = 400
    /\ Len(records) >= 1

\* C10: process_file fails with a ValueError carrying a message whenever
\* the detected format of the file is unknown.
C10_UnknownFormatRaises ==
    (request.seq > 0 /\ DetectFileFormat(request.filename) = "unknown")
        => (outcome.raised /\ outcome.error # "")

\* The Reader returned a table for the file, and the table has no row.
ZeroRowsParsed(req) ==
    Only({read.ok /\ Len(read.frame.rows) = 0 : read \in {ReadDataFile(req)}})

\* C11: whenever the parsed table has zero rows, process_file raises its
\* ValueError ("File processing failed: Uploaded file is empty") and no
\* later stage runs: only read_data_file was called, and the table of
\* upload records is left as it was.
C11_EmptyTableRaises ==
    [][ZeroRowsParsed(request') =>
          /\ outcome'.raised
          /\ ~outcome'.returned
          /\ outcome'.error = "File processing failed: Uploaded file is empty"
          /\ calls' = <<"read_data_file">>
          /\ records' = records]_vars

\* a header-only CSV file was refused after an earlier upload was recorded
C11_Witness ==
    /\ request.seq > 0
    /\ request.content.kind = "csv"
    /\ Len(request.content.frame.dtypes) >= 1
    /\ ZeroRowsParsed(request)
    /\ outcome.raised
    /\ Len(records) >= 1

\* What process_file returns for the last file when add and commit succeed.
WithPersistence == ProcessFile(request, <<>>, "ok", outcome.raising)

PersistenceFailed == \E i \in 1..Len(calls) : calls[i] = "db.session.rollback"

\* C13: a failure while persisting the upload record (add, commit, or the
\* rollback that follows) never fails or changes the pipeline result:
\* process_file raises nothing and returns the result and cleaned frame it
\* returns when persistence succeeds.
C13_PersistenceFailureIgnored ==
    (request.seq > 0 /\ PersistenceFailed) =>
        /\ ~outcome.raised
        /\ outcome.result = WithPersistence.result
        /\ outcome.df_cleaned = WithPersistence.df_cleaned

(***************************************************************************)
(* Properties of generate_all_tables, checked under SpecClean.             *)
(***************************************************************************)
NumericCount(d) == Cardinality({c \in 1..Len(d.dtypes) : d.dtypes[c] \in NpNumber})
CategoricalCount(d) == Cardinality({c \in 1..Len(d.dtypes) : d.dtypes[c] = "object"})

\* The table names whose precondition the frame meets.
ExpectedTables(d) ==
    {"data_types", "missing_values", "duplicate_analysis", "summary"}
    \cup (IF NumericCount(d) >= 1 THEN {"descriptive_statistics", "numeric_comparison"} ELSE {})
    \cup (IF CategoricalCount(d) >= 1 THEN {"categorical_comparison"} ELSE {})
    \cup (IF NumericCount(d) >= 2 THEN {"correlation_matrix"} ELSE {})

\* C14: generate_all_tables returns a TableSet for every cleaned frame,
\* also one without numeric columns, without categorical columns or without
\* rows; a table whose precondition is not met has no key in the TableSet,
\* and where no statement raises the keys are exactly the tables whose
\* precondition is met.
C14_TablesNeverRaise ==
    tables # <<>> =>
        /\ DOMAIN tables[1] \subseteq ExpectedTables(df_cleaned)
        /\ ~TableRaises(df_cleaned) =>
              /\ DOMAIN tables[1] = ExpectedTables(df_cleaned)
              /\ \A c \in 1..Len(df_cleaned.dtypes) :
                    df_cleaned.dtypes[c] = "object" =>
                        tables[1]["categorical_comparison"][c].unique_count
                            <= Len(df_cleaned.rows)
              /\ tables[1]["summary"].total_rows = Len(df_cleaned.rows)
              /\ tables[1]["summary"].total_missing_values = 0
              /\ tables[1]["duplicate_analysis"].total_duplicates = 0
              /\ Len(df_cleaned.rows) = 0 =>
                    tables[1]["duplicate_analysis"].duplicate_percentage = 0

\* tables of a cleaned frame that has a categorical column and no row
C14_Witness ==
    /\ tables # <<>>
    /\ Len(df.rows) >= 1
    /\ Len(df_cleaned.rows) = 0
    /\ CategoricalCount(df_cleaned) = 1
    /\ "categorical_comparison" \in DOMAIN tables[1]
    /\ "summary" \in DOMAIN tables[1]

\* C15: correlation_matrix is a key of the TableSet if and only if the
\* frame has at least 2 numeric (np.number) columns, and then relates every
\* numeric column to every numeric column; descriptive_statistics and
\* numeric_comparison are keys if and only if it has at least 1; data_types
\* is always a key and has one entry per column.
C15_NumericTableKeys ==
    tables # <<>> =>
        LET numeric == {c \in 1..Len(df_cleaned.dtypes) : df_cleaned.dtypes[c] \in NpNumber}
        IN /\ ("correlation_matrix" \in DOMAIN tables[1]) <=> (Cardinality(numeric) >= 2)
           /\ Cardinality(numeric) >= 2 =>
                 /\ DOMAIN tables[1]["correlation_matrix"] = numeric
                 /\ \A c \in numeric : tables[1]["correlation_matrix"][c] = numeric
           /\ ("descriptive_statistics" \in DOMAIN tables[1]) <=> (Cardinality(numeric) >= 1)
           /\ ("numeric_comparison" \in DOMAIN tables[1]) <=> (Cardinality(numeric) >= 1)
           /\ Cardinality(numeric) >= 1 =>
                 /\ DOMAIN tables[1]["descriptive_statistics"] = numeric
                 /\ DOMAIN tables[1]["numeric_comparison"] = numeric
           /\ "data_types" \in DOMAIN tables[1]
           /\ Len(tables[1]["data_types"].data_type) = Len(df_cleaned.dtypes)

(***************************************************************************)
(* Properties of generate_all_graphs, checked under SpecGraphs.            *)
(***************************************************************************)
NumericKinds ==
    {"histogram", "distribution", "correlation", "scatter", "line", "kde", "area",
     "bar", "violin"}

\* C16: for a frame with exactly 1 numeric column the ChartSet has the key
\* correlation, and its value is the empty string.
C16_CorrelationEmptyString ==
    (graphs # <<>> /\ NumericCount(chart_df) = 1) =>
        /\ "correlation" \in DOMAIN graphs[1]
        /\ graphs[1]["correlation"] = ""

\* C17: generate_all_graphs returns a ChartSet whatever rendering raises;
\* a chart kind whose rendering raised has the empty string under its key,
\* and every chart kind of the batch has its key, those after a failed
\* one included.
C17_FailedChartEmptyRestPresent ==
    graphs # <<>> =>
        /\ DOMAIN graphs[1] =
              (IF NumericCount(chart_df) >= 1 THEN NumericKinds ELSE {})
              \cup (IF CategoricalCount(chart_df) >= 1 THEN {"pie"} ELSE {})
              \cup {"missing"}
        /\ \A kind \in DOMAIN graphs[1] : (graphs[1][kind] = "") <=> (kind \in failing)

\* the first chart of the batch failed, and the ten after it were rendered
C17_Witness ==
    /\ graphs # <<>>
    /\ failing = {"histogram"}
    /\ Len(chart_df.rows) >= 2
    /\ DOMAIN graphs[1] = ChartKinds
    /\ graphs[1]["histogram"] = ""
    /\ \A kind \in ChartKinds \ {"histogram"} : graphs[1][kind] # ""

FirstCategorical(d) ==
    CHOOSE c \in 1..Len(d.dtypes) :
        d.dtypes[c] = "object" /\ \A b \in 1..(c - 1) : d.dtypes[b] # "object"

DistinctValues(d, c) == Cardinality({d.rows[i][c] : i \in 1..Len(d.rows)})

Decoding ==
    {k \in 1..5 : Decodes(text_file.content, Encodings[k], text_file.codecs)}

C19_CsvRoundTrip ==
    reread # <<>> =>
        /\ reread[1].ok
        /\ Len(reread[1].frame.rows) = Len(exported[1].frame.rows)
        /\ Len(reread[1].frame.dtypes) = Len(exported[1].frame.dtypes)
        /\ \A i \in 1..Len(exported[1].frame.rows) :
              \A c \in 1..Len(exported[1].frame.dtypes) :
                 reread[1].frame.rows[i][c] = exported[1].frame.rows[i][c]

(***************************************************************************)
(* Properties of the report routes, checked under SpecReport.              *)
(***************************************************************************)
\* The errors that tell the client to install a library.
MissingDependencyErrors ==
    {"Excel export requires openpyxl. Install with: pip install openpyxl",
     "PDF export requires reportlab. Install with: pip install reportlab",
     "PowerPoint export requires python-pptx. Install with: pip install python-pptx",
     "Word export requires python-docx. Install with: pip install python-docx",
     "PDF generation not available. Install reportlab: pip install reportlab",
     "PowerPoint generation not available. Install python-pptx: pip install python-pptx",
     "Word generation not available. Install python-docx: pip install python-docx"}

\* C20: for xlsx, pdf, pptx and docx a missing library and a render failure
\* reach the client as two different errors on every route of the target:
\* a missing library as an error that tells to install it, a render
\* failure as an error that does not.
C20_MissingDependencyDistinct ==
    (report_request.seq > 0 /\ report_request.has_data) =>
        /\ ~report_request.installed =>
              /\ report_response[1].status >= 400
              /\ report_response[1].error \in MissingDependencyErrors
        /\ (report_request.installed /\ ~report_request.renders) =>
              /\ report_response[1].status >= 400
              /\ report_response[1].error \notin MissingDependencyErrors

(***************************************************************************)
(* The except clause of generate_all_tables, checked under SpecClean.      *)
(***************************************************************************)
\* The construction order of the tables.
TableOrder ==
    <<"descriptive_statistics", "data_types", "numeric_comparison",
      "categorical_comparison", "missing_values", "correlation_matrix",
      "duplicate_analysis", "summary">>

\* C26: when a statement of generate_all_tables raises while a table is
\* built (numeric_comparison, on a frame with a timedelta column), the
\* function returns a TableSet holding exactly the tables built before that
\* one, descriptive_statistics and data_types, each complete; neither the
\* table being built nor any later table is a key.
C26_TruncatedAtException ==
    (tables # <<>> /\ TableRaises(df_cleaned)) =>
        /\ DOMAIN tables[1] = {TableOrder[i] : i \in 1..2}
        /\ DOMAIN tables[1]["descriptive_statistics"] =
              {c \in 1..Len(df_cleaned.dtypes) : df_cleaned.dtypes[c] \in NpNumber}
        /\ tables[1]["data_types"].data_type = df_cleaned.dtypes
        /\ \A c \in 1..Len(df_cleaned.dtypes) :
              tables[1]["data_types"].non_null_count[c] = Len(df_cleaned.rows)

\* tables of a frame with rows, a timedelta column and a categorical
\* column: categorical_comparison, after the failed table, is not a key
C26_Witness ==
    /\ tables # <<>>
    /\ TableRaises(df_cleaned)
    /\ Len(df_cleaned.rows) >= 2
    /\ CategoricalCount(df_cleaned) >= 1
    /\ "data_types" \in DOMAIN tables[1]
    /\ "categorical_comparison" \notin DOMAIN tables[1]

(***************************************************************************)
(* Duplicate removal in clean_data, checked under SpecClean.               *)
(***************************************************************************)
\* The positions of rows whose row equals no earlier row, cell by cell.
FirstOccurrences(rows) ==
    {i \in 1..Len(rows) : \A j \in 1..(i - 1) : \E c \in 1..Len(rows[i]) : rows[j][c] # rows[i][c]}

\* C27: clean_data removes duplicates by equality of the whole row: of
\* the input rows exactly the first occurrences go on to imputation, in
\* their input order; of the imputed rows the ones that survive are the
\* first occurrences among the rows without a missing cell, in the same
\* order; the returned frame holds no two equal rows.
C27_KeepFirstInOrder ==
    passes > 0 =>
        /\ dd = TakeRows(df.rows, FirstOccurrences(df.rows))
        /\ Len(filled) = Len(dd)
        /\ LET complete == TakeRows(filled, {i \in 1..Len(filled) : NullCells(<<filled[i]>>) = {}})
           IN df_cleaned.rows = TakeRows(complete, FirstOccurrences(complete))
        /\ HasNoDuplicates(df_cleaned.rows)

\* an input whose third row repeats its first and not its second: the
\* repeat is dropped, the two others survive in their order
C27_Witness ==
    /\ passes = 1
    /\ Len(df.rows) >= 3
    /\ df.rows[3] = df.rows[1]
    /\ df.rows[2] # df.rows[1]
    /\ Len(df_cleaned.rows) >= 2
    /\ Len(dd) < Len(df.rows)

(***************************************************************************)
(* Properties of process_file as a whole, checked under SpecProcess.       *)
(***************************************************************************)
\* The place of the first call of name in the call trace; 0 when absent.
Position(trace, name) ==
    LET at == {i \in 1..Len(trace) : trace[i] = name}
    IN IF at = {} THEN 0 ELSE CHOOSE i \in at : \A j \in at : i <= j

\* C21 as stated: in a call that returns, generate_all_tables has run
\* before generate_all_graphs.
C21_TablesBeforeCharts ==
    outcome.returned =>
        Position(calls, "generate_all_tables") < Position(calls, "generate_all_graphs")

\* C21: process_file runs its stages in the order read_data_file,
\* clean_data, analyze_data, generate_all_graphs, generate_all_tables: a
\* stage has run only after every stage before it, the charts are rendered
\* before the tables are generated, and the upload record is added and
\* committed only after all five stages; a call that returns has run all.
C21_ChartsThenTablesThenRecord ==
    request.seq > 0 =>
        LET order ==
                <<"read_data_file", "clean_data", "analyze_data", "generate_all_graphs",
                  "generate_all_tables", "db.session.add", "db.session.commit">>
        IN /\ \A i \in 1..Len(order) : \A j \in (i + 1)..Len(order) :
                 Position(calls, order[j]) > 0 =>
                     /\ Position(calls, order[i]) > 0
                     /\ Position(calls, order[i]) < Position(calls, order[j])
           /\ outcome.returned =>
                 /\ Position(calls, "generate_all_tables") > 0
                 /\ Position(calls, "db.session.add") > 0

\* a call that returned and whose record was committed
C21_Witness ==
    /\ outcome.returned
    /\ Len(calls) = 7
    /\ calls[4] = "generate_all_graphs"
    /\ calls[5] = "generate_all_tables"
    /\ calls[7] = "db.session.commit"
    /\ Len(records) >= 1

\* C22: in every result of process_file the analysis lists every column
\* of the cleaned frame once: the lengths of numeric_columns and
\* categorical_columns add up to columns.
C22_ColumnsPartitioned ==
    outcome.returned =>
        Len(outcome.result.analysis.numeric_columns)
            + Len(outcome.result.analysis.categorical_columns)
        = outcome.result.analysis.columns

C28_OneRecordPerReturn ==
    [][/\ outcome'.returned => Len(records') = Len(records) + 1
       /\ outcome'.raised => records' = records]_vars

\* C28: a call of process_file that returns after add and commit have
\* succeeded appends one record to the table, holding the filename and the
\* row and column counts of the cleaned frame; every other call (one that
\* raises, or one that returns after add or commit failed) leaves the table
\* as it was; the records already in the table are never changed.
C28_OneRecordPerPersistedReturn ==
    [][IF outcome'.returned /\ ~PersistenceFailed'
       THEN records' = Append(records, [filename |-> request'.filename,
                                        rows |-> Len(outcome'.df_cleaned.rows),
                                        columns |-> Len(outcome'.df_cleaned.dtypes)])
       ELSE records' = records]_vars

\* a second record, of a frame that lost rows in cleaning
C28_Witness ==
    /\ Len(records) = 2
    /\ outcome.returned
    /\ ~PersistenceFailed
    /\ records[2].filename = request.filename
    /\ records[2].rows = Len(outcome.df_cleaned.rows)
    /\ records[2].rows < outcome.result.cleaning_report.original.rows

\* C29: the frame process_file returns has at least one row.
C29_ReturnedFrameHasRows ==
    outcome.returned => Len(outcome.df_cleaned.rows) >= 1

\* C30: the table generator counts as numeric the columns the analyzer
\* lists as numeric: in every result tables.summary.numeric_columns is the
\* length of numeric_columns.
C30_SameNumericColumns ==
    outcome.returned =>
        outcome.result.tables["summary"].numeric_columns
        = Len(outcome.result.analysis.numeric_columns)

(***************************************************************************)
(* Properties of the figures, checked under SpecFigures and SpecThreads.   *)
(***************************************************************************)
\* C24: after every call of generate_graph,
\* generate_column_distribution_chart or generate_correlation_heatmap,
\* whether it rendered or failed, no more figures are open than before the
\* first call: none.
C24_FiguresFreed == Len(figs) = 0

\* C25: whatever the interleaving of generate_graph calls, each call draws
\* on, saves and closes no figure but the one it created, and the figure
\* it saves holds no drawing of another call.
C25_OwnFigureOnly ==
    \A t \in DOMAIN threads :
        /\ threads[t].drew_on \in {0, threads[t].own}
        /\ threads[t].image.serial \in {0, threads[t].own}
        /\ threads[t].image.drawn \subseteq {t}
        /\ threads[t].closed \in {0, threads[t].own}

====
